---- MODULE Spec2Model ----
(***************************************************************************)
(* Usage accounting and quota enforcement of biz2bricks_core               *)
(* (services/usage_service.py): the storage and token counters of the      *)
(* usage_limits table, the checks that read them and the commits that      *)
(* write them, run by concurrent callers, each call in a database          *)
(* transaction of its own (PostgreSQL, READ COMMITTED).                    *)
(*                                                                         *)
(* A nullable column or an Optional value is a sequence of length at most  *)
(* one: << >> is NULL / None, <<v>> is the value v.  Byte and token        *)
(* quantities are exact integers.  percentage_used is held in hundredths   *)
(* of a percent (round(x, 2) of the source): 10200 is 102.0.               *)
(***************************************************************************)
EXTENDS Integers, Sequences, FiniteSets, TLC

(***************************************************************************)
(* Bounds of the model.                                                    *)
(***************************************************************************)
\* number of concurrent callers (workers holding a session each)
NProcs == 2
\* calls one behaviour makes in all
MaxCalls == 2

\* number of concurrent upload workers
NWorkers == 3

Procs == 1 .. NProcs

Workers == 1 .. NWorkers

(***************************************************************************)
(* Nullable values.                                                        *)
(***************************************************************************)
NULL == << >>

Some(v) == << v >>

IsNull(x) == x = NULL

Val(x) == x[1]

\* Python's `x or 0` on an Optional[int]: None and 0 both give 0
OrZero(x) == IF IsNull(x) THEN 0 ELSE Val(x)

\* Python's truth value of an Optional[int]: None and 0 are false
Truthy(x) == ~IsNull(x) /\ Val(x) # 0

Max(a, b) == IF a >= b THEN a ELSE b

(***************************************************************************)
(* Tables that this subsystem only reads.                                  *)
(***************************************************************************)
OrgIds == {"org_a", "org_b"}

\* organizations.plan_id is nullable: "none" stands for NULL
NoPlan == "none"

PlanIds == {"plan_capped", "plan_uncapped", "plan_zero"}

\* subscription_plans: max_storage_mb is nullable, monthly_token_limit is not
subscription_plans(plan_id) ==
    CASE plan_id = "plan_capped" ->
            [max_storage_mb |-> Some(1), monthly_token_limit |-> 300000]
      [] plan_id = "plan_uncapped" ->
            [max_storage_mb |-> NULL, monthly_token_limit |-> 500000]
      [] plan_id = "plan_zero" ->
            [max_storage_mb |-> Some(0), monthly_token_limit |-> 0]

\* organizations.plan_type as the rows of the model carry it: two tiers of
\* STORAGE_TIERS, a label that is no tier, and the empty string.  The pro and
\* business defaults (10 GiB, 100 GiB) are beyond TLC's 32-bit integers.
PlanTypes == {"free", "starter", "enterprise", ""}

STORAGE_TIERS(tier) ==
    CASE tier = "free" -> 100 * 1024 * 1024
      [] tier = "starter" -> 1024 * 1024 * 1024
      [] tier = "pro" -> 10 * 1024 * 1024 * 1024
      [] tier = "business" -> 100 * 1024 * 1024 * 1024

TierNames == {"free", "starter", "pro", "business"}

\* dict.get(tier, STORAGE_TIERS["free"])
StorageTierGet(tier) ==
    IF tier \in TierNames THEN STORAGE_TIERS(tier) ELSE STORAGE_TIERS("free")

(***************************************************************************)
(* round(used / limit * 100, 2), in hundredths of a percent: the quotient  *)
(* used * 10000 / limit rounded to the nearest integer, a tie to the even  *)
(* one.  Long division, each decimal digit by ten additions, so that no    *)
(* intermediate value exceeds 2 * limit (TLC's integers are 32 bits wide). *)
(***************************************************************************)
RECURSIVE TimesTen(_, _, _, _)
\* <<(10 * rem) \div den, (10 * rem) % den>>, for 0 <= rem < den: st is
\* <<digit, remainder>> after 10 - k additions of rem
TimesTen(rem, den, k, st) ==
    IF k = 0 THEN st
    ELSE LET sum == st[2] + rem
         IN  TimesTen(rem, den, k - 1,
                      IF sum >= den THEN << st[1] + 1, sum - den >>
                                    ELSE << st[1], sum >>)

DivStep(st, den) ==
    LET d == TimesTen(st.rem, den, 10, << 0, 0 >>)
    IN  [acc |-> st.acc * 10 + d[1], rem |-> d[2]]

RoundedPercent(used, limit) ==
    LET s0 == [acc |-> used \div limit, rem |-> used % limit]
        s4 == DivStep(DivStep(DivStep(DivStep(s0, limit), limit), limit), limit)
        up == \/ s4.rem > limit - s4.rem
              \/ s4.rem = limit - s4.rem /\ s4.acc % 2 = 1
    IN  IF up THEN s4.acc + 1 ELSE s4.acc

(***************************************************************************)
(* check_storage_limit: the parts that compute on what the session read.   *)
(***************************************************************************)
\* tier = org.plan_type or "free"
TierOf(org) == IF org.plan_type = "" THEN "free" ELSE org.plan_type

\* the outer join on organizations.plan_id: the plan row, or None
PlanOf(org) ==
    IF org.plan_id = NoPlan THEN NULL ELSE Some(subscription_plans(org.plan_id))

\* limit from the plan, or the default of the tier
LimitBytesOf(org) ==
    LET plan == PlanOf(org)
    IN  IF ~IsNull(plan) /\ Truthy(Val(plan).max_storage_mb)
        THEN Val(Val(plan).max_storage_mb) * 1024 * 1024
        ELSE StorageTierGet(TierOf(org))

\* a variant of StorageNotFound: the unknown organization is let through
StorageNotFoundAllowed ==
    [allowed |-> TRUE, current_bytes |-> 0, limit_bytes |-> Some(0),
     remaining_bytes |-> Some(0), percentage_used |-> 10000, tier |-> "free"]

\* the result returned when the organization row is not found
StorageNotFound ==
    [allowed |-> FALSE, current_bytes |-> 0, limit_bytes |-> Some(0),
     remaining_bytes |-> Some(0), percentage_used |-> 10000, tier |-> "unknown"]

\* a variant of StorageLimitResult: the decision leaves additional_bytes out
StorageLimitResultCurrentOnly(current_bytes, limit_bytes, additional_bytes, tier) ==
    [allowed |-> current_bytes <= limit_bytes,
     current_bytes |-> current_bytes,
     limit_bytes |-> Some(limit_bytes),
     remaining_bytes |-> Some(Max(0, limit_bytes - current_bytes)),
     percentage_used |-> IF limit_bytes > 0
                         THEN RoundedPercent(current_bytes, limit_bytes) ELSE 0,
     tier |-> tier]

\* the result computed from current_bytes, limit_bytes and additional_bytes
StorageLimitResult(current_bytes, limit_bytes, additional_bytes, tier) ==
    LET total_after == current_bytes + additional_bytes
        percentage == IF limit_bytes > 0
                      THEN RoundedPercent(current_bytes, limit_bytes) ELSE 0
    IN  [allowed |-> total_after <= limit_bytes,
         current_bytes |-> current_bytes,
         limit_bytes |-> Some(limit_bytes),
         remaining_bytes |-> Some(Max(0, limit_bytes - current_bytes)),
         percentage_used |-> percentage,
         tier |-> tier]

\* SELECT COALESCE(SUM(file_size), 0) over the organization's active documents
RECURSIVE SumFileSize(_)
SumFileSize(docs) ==
    IF docs = {} THEN 0
    ELSE LET d == CHOOSE x \in docs : TRUE
         IN  d.file_size + SumFileSize(docs \ {d})

\* a variant of compute_storage_from_documents: is_active is not looked at
compute_storage_from_all_documents(docs, org_id) ==
    SumFileSize({d \in docs : d.organization_id = org_id})

compute_storage_from_documents(docs, org_id) ==
    SumFileSize({d \in docs : d.organization_id = org_id /\ d.is_active})

(***************************************************************************)
(* check_token_limit: the parts that compute on what the session read.     *)
(***************************************************************************)
\* a variant of TokenNoRow: no row, no tokens
TokenNoRowDenied ==
    [allowed |-> FALSE, tokens_used_this_period |-> 0, monthly_limit |-> Some(0),
     remaining_tokens |-> Some(0), percentage_used |-> 0]

\* the result returned when the join finds no usage_limits row
TokenNoRow ==
    [allowed |-> TRUE, tokens_used_this_period |-> 0, monthly_limit |-> NULL,
     remaining_tokens |-> NULL, percentage_used |-> 0]

\* usage.monthly_token_limit or (plan.monthly_token_limit if plan else None)
MonthlyLimitOf(usage, plan) ==
    IF Truthy(usage.monthly_token_limit) THEN usage.monthly_token_limit
    ELSE IF ~IsNull(plan) THEN Some(Val(plan).monthly_token_limit)
    ELSE NULL

\* a variant of TokenLimitResult: percentage_used stops at 100
TokenLimitResultCapped(usage, plan, estimated_tokens) ==
    LET monthly_limit == MonthlyLimitOf(usage, plan)
        tokens_used == OrZero(usage.credit_used_this_period)
    IN  IF IsNull(monthly_limit)
        THEN [allowed |-> TRUE, tokens_used_this_period |-> tokens_used,
              monthly_limit |-> NULL, remaining_tokens |-> NULL,
              percentage_used |-> 0]
        ELSE LET limit == Val(monthly_limit)
                 percentage == IF tokens_used >= limit THEN 10000
                               ELSE RoundedPercent(tokens_used, limit)
             IN  [allowed |-> tokens_used + estimated_tokens <= limit,
                  tokens_used_this_period |-> tokens_used,
                  monthly_limit |-> monthly_limit,
                  remaining_tokens |-> Some(Max(0, limit - tokens_used)),
                  percentage_used |-> percentage]

TokenLimitResult(usage, plan, estimated_tokens) ==
    LET monthly_limit == MonthlyLimitOf(usage, plan)
        tokens_used == OrZero(usage.credit_used_this_period)
    IN  IF IsNull(monthly_limit)
        THEN [allowed |-> TRUE, tokens_used_this_period |-> tokens_used,
              monthly_limit |-> NULL, remaining_tokens |-> NULL,
              percentage_used |-> 0]
        ELSE LET limit == Val(monthly_limit)
                 percentage == IF limit > 0
                               THEN RoundedPercent(tokens_used, limit) ELSE 0
             IN  [allowed |-> tokens_used + estimated_tokens <= limit,
                  tokens_used_this_period |-> tokens_used,
                  monthly_limit |-> monthly_limit,
                  remaining_tokens |-> Some(Max(0, limit - tokens_used)),
                  percentage_used |-> percentage]

(***************************************************************************)
(* The commits: the value written.                                         *)
(***************************************************************************)
\* a variant of NewStorageValue: no floor at 0
NewStorageValueUnfloored(usage, delta_bytes) ==
    IF ~IsNull(usage)
    THEN OrZero(Val(usage).storage_used_bytes) + delta_bytes
    ELSE delta_bytes

\* usage is the row read under FOR UPDATE, or None
NewStorageValue(usage, delta_bytes) ==
    IF ~IsNull(usage)
    THEN Max(0, OrZero(Val(usage).storage_used_bytes) + delta_bytes)
    ELSE Max(0, delta_bytes)

\* a variant of NewTokenValue: the count passed replaces the counter
NewTokenValueOverwrites(usage, tokens) == tokens

NewTokenValue(usage, tokens) ==
    IF ~IsNull(usage)
    THEN OrZero(Val(usage).credit_used_this_period) + tokens
    ELSE tokens

\* UsageLimitsModel(...) of a new row: the columns not given take the
\* defaults of the mapped class
NewUsageRow(storage, credit) ==
    [storage_used_bytes |-> Some(storage), credit_used_this_period |-> Some(credit),
     monthly_token_limit |-> NULL, storage_limit_bytes |-> NULL]

(***************************************************************************)
(* State.                                                                  *)
(***************************************************************************)
VARIABLES
    organizations,  \* [OrgIds -> NULL or <<[plan_type, plan_id]>>]
    documents,      \* the rows of documents: [id, organization_id, file_size, is_active]
    usage_limits,   \* [OrgIds -> NULL or <<row>>]: the committed rows
    usage_events,   \* the committed rows of usage_events:
                    \* [id, organization_id, request_id, input_tokens]
    holder,         \* [OrgIds -> 0 or the caller whose open transaction holds the
                    \*  usage_limits row of the organization: locked FOR UPDATE,
                    \*  or inserted and not yet committed]
    pc,             \* [caller -> where its call stands]
    call,           \* [caller -> the call it makes: op, org_id, n]
    session,        \* [caller -> what its open session read and will write]
    result,         \* [caller -> whether the call it made has returned or raised,
                    \*  and the value returned]
    usage0,         \* usage_limits as it was at the start
    hist            \* a record of the calls made so far: how many, which
                    \* operations, how many raised, whether an argument was
                    \* negative, the sums of the deltas and token counts passed
                    \* for each organization, the value the last
                    \* update_tokens_used on each organization returned, the
                    \* request ids passed to log_token_usage, and what the
                    \* last recalculate_storage left if every call begun
                    \* since was a recalculate_storage too

vars == << organizations, documents, usage_limits, usage_events, holder, pc, call,
           session, result, usage0, hist >>

AllProcs == Procs \cup Workers

NoCall == [op |-> "none", org_id |-> "org_a", n |-> 0, request_id |-> NULL]

NoSession == [usage |-> NULL, new_value |-> 0, write |-> "none", event |-> NULL]

NoResult == [status |-> "none", value |-> NULL]

\* the values the callers of the model pass
DeltaBytes == {-400000, 50000}

TokenCounts == {-1, 60000}

EstimatedTokens == {0, 60000}

\* a usage_limits row that touches the storage side only, and the token side only
StorageRow(used, cached_limit) ==
    [storage_used_bytes |-> Some(used), credit_used_this_period |-> Some(0),
     monthly_token_limit |-> NULL, storage_limit_bytes |-> cached_limit]

TokenRow(credit, monthly) ==
    [storage_used_bytes |-> Some(0), credit_used_this_period |-> credit,
     monthly_token_limit |-> monthly, storage_limit_bytes |-> NULL]

\* storage_used_bytes at the start: nothing, below the 1 MiB of plan_capped,
\* above it, and exactly the 100 MiB of the free tier
StorageUsedValues == {0, 900000, 1200000, 100 * 1024 * 1024}

OrgRows == [plan_type : PlanTypes, plan_id : PlanIds \cup {NoPlan}]

UsageRows ==
    {StorageRow(u, c) : u \in StorageUsedValues, c \in {NULL, Some(1000000)}}
    \cup {TokenRow(c, m) : c \in {NULL, Some(0), Some(450000)},
                           m \in {NULL, Some(0), Some(500000)}}

Doc(id, org_id, size, active) ==
    [id |-> id, organization_id |-> org_id, file_size |-> size, is_active |-> active]

DocumentSets ==
    { {},
      {Doc(1, "org_a", 10, TRUE), Doc(2, "org_a", 20, TRUE), Doc(3, "org_a", 30, TRUE),
       Doc(4, "org_a", 40, FALSE), Doc(5, "org_b", 50, TRUE)},
      {Doc(1, "org_a", 10, TRUE), Doc(2, "org_a", 10, TRUE), Doc(3, "org_b", 7, FALSE)} }

\* every variable but the three tables, as a process that has made no call
\* leaves it; no event is logged yet
InitCallers ==
    /\ usage_events = {}
    /\ holder = [o \in OrgIds |-> 0]
    /\ pc = [p \in AllProcs |-> "idle"]
    /\ call = [p \in AllProcs |-> NoCall]
    /\ session = [p \in AllProcs |-> NoSession]
    /\ result = [p \in AllProcs |-> NoResult]
    /\ usage0 = usage_limits
    /\ hist = [calls |-> 0, raised |-> 0, ops |-> {}, negative |-> FALSE,
               delta_sum |-> [o \in OrgIds |-> 0], token_sum |-> [o \in OrgIds |-> 0],
               tokens_returned |-> [o \in OrgIds |-> NULL],
               requests |-> {}, last_recalc |-> NULL]

FreeOrg == [plan_type |-> "free", plan_id |-> NoPlan]

\* usage_limits.organization_id and documents.organization_id reference
\* organizations.id: a row exists only for an organization that exists
ForeignKeys ==
    /\ \A d \in documents : organizations[d.organization_id] # NULL
    /\ \A o \in OrgIds : organizations[o] = NULL => usage_limits[o] = NULL

\* The tables at the start of a run of concurrent callers: org_a without a
\* usage_limits row or with one, org_b with one.
Init ==
    /\ organizations = [o \in OrgIds |-> Some(FreeOrg)]
    /\ documents = {Doc(1, "org_b", 7, TRUE)}
    /\ usage_limits \in [OrgIds -> {NULL, Some(StorageRow(900000, NULL)),
                                    Some(TokenRow(Some(450000), Some(500000)))}]
    /\ usage_limits["org_b"] = Some(StorageRow(900000, NULL))
    /\ ForeignKeys
    /\ InitCallers

\* The tables at the start of a run of one caller: every organization row,
\* with the usage_limits rows and documents that bear on storage, every
\* plan with the usage_limits rows that bear on tokens, and a counter that
\* differs from the documents it should sum.
InitSeq ==
    /\ organizations \in [OrgIds -> {NULL} \cup {Some(o) : o \in OrgRows}]
    /\ organizations["org_b"] \in {NULL, Some(FreeOrg)}
    /\ documents \in DocumentSets
    /\ usage_limits \in [OrgIds -> {NULL} \cup {Some(r) : r \in UsageRows}]
    /\ usage_limits["org_b"] \in {NULL, Some(StorageRow(0, NULL))}
    /\ organizations["org_b"] = NULL <=> usage_limits["org_b"] = NULL
    /\ ForeignKeys
    /\ \/ /\ usage_limits["org_a"] = NULL
       \/ /\ usage_limits["org_a"] \in {Some(StorageRow(u, c)) :
                  u \in StorageUsedValues, c \in {NULL, Some(1000000)}}
          /\ organizations["org_b"] # NULL
          /\ documents = {}
       \/ /\ usage_limits["org_a"] # NULL
          /\ Val(organizations["org_a"]).plan_type = "free"
          /\ organizations["org_b"] # NULL
          /\ documents = {}
       \/ /\ usage_limits["org_a"] \in {Some(StorageRow(900000, NULL)),
                                        Some(TokenRow(Some(450000), Some(500000)))}
          /\ organizations["org_a"] = Some(FreeOrg)
          /\ documents # {}
    /\ InitCallers

(***************************************************************************)
(* A call begins, returns or raises.                                       *)
(***************************************************************************)
Begin(p, op, org_id, n) ==
    /\ pc[p] = "idle"
    /\ call' = [call EXCEPT ![p] = [op |-> op, org_id |-> org_id, n |-> n,
                                    request_id |-> NULL]]
    /\ hist' = [hist EXCEPT
                  !.calls = @ + 1,
                  !.ops = @ \cup {op},
                  !.negative = @ \/ n < 0,
                  !.delta_sum[org_id] = IF op = "update_storage_used" THEN @ + n ELSE @,
                  !.token_sum[org_id] = IF op = "update_tokens_used" THEN @ + n ELSE @,
                  !.last_recalc = IF op = "recalculate_storage" THEN @ ELSE NULL]

\* A caller may make a call while the behaviour has calls left.  The callers
\* are interchangeable, so they are taken to make their first calls in the
\* order of their numbers.
MayCall(p) ==
    /\ hist.calls < MaxCalls
    /\ \A q \in Procs : q < p => call[q].op # "none"

\* the call goes on to its next statement, its session holding sess
Continue(p, next, sess) ==
    /\ pc' = [pc EXCEPT ![p] = next]
    /\ session' = [session EXCEPT ![p] = sess]
    /\ result' = [result EXCEPT ![p] = NoResult]

\* the session is left without an exception: `async with db.session()` commits
Return(p, value) ==
    /\ pc' = [pc EXCEPT ![p] = "idle"]
    /\ session' = [session EXCEPT ![p] = NoSession]
    /\ result' = [result EXCEPT ![p] = [status |-> "returned", value |-> Some(value)]]

\* an exception leaves the session: the transaction is rolled back, what
\* it holds is released, and the exception reaches the caller
Raise(p) ==
    /\ pc' = [pc EXCEPT ![p] = "idle"]
    /\ session' = [session EXCEPT ![p] = NoSession]
    /\ result' = [result EXCEPT ![p] = [status |-> "raised", value |-> NULL]]
    /\ holder' = [o \in OrgIds |-> IF holder[o] = p THEN 0 ELSE holder[o]]
    /\ hist' = [hist EXCEPT !.raised = @ + 1]

(***************************************************************************)
(* check_storage_limit(org_id, additional_bytes)                           *)
(***************************************************************************)
AdditionalBytes == {0, 50000, 200000}

\* a variant of check_storage_limit: the limit cached on the usage_limits row,
\* if there is one, is taken for limit_bytes
check_storage_limit_cached(p, org_id, additional_bytes) ==
    /\ Begin(p, "check_storage_limit", org_id, additional_bytes)
    /\ LET row == organizations[org_id]
           usage == usage_limits[org_id]
       IN  IF IsNull(row)
           THEN Return(p, StorageNotFound)
           ELSE IF ~IsNull(usage) /\ ~IsNull(Val(usage).storage_used_bytes)
           THEN Return(p, StorageLimitResult(
                              Val(Val(usage).storage_used_bytes),
                              IF IsNull(Val(usage).storage_limit_bytes)
                              THEN LimitBytesOf(Val(row))
                              ELSE Val(Val(usage).storage_limit_bytes),
                              additional_bytes, TierOf(Val(row))))
           ELSE Continue(p, "csl_documents", NoSession)
    /\ UNCHANGED << organizations, documents, usage_events, usage_limits, holder, usage0 >>

\* the organization with its plan is selected, then the usage_limits row:
\* the call returns at once unless it has to sum the documents
check_storage_limit(p, org_id, additional_bytes) ==
    /\ Begin(p, "check_storage_limit", org_id, additional_bytes)
    /\ LET row == organizations[org_id]
           usage == usage_limits[org_id]
       IN  IF IsNull(row)
           THEN Return(p, StorageNotFound)
           ELSE IF ~IsNull(usage) /\ ~IsNull(Val(usage).storage_used_bytes)
           THEN Return(p, StorageLimitResult(
                              Val(Val(usage).storage_used_bytes),
                              LimitBytesOf(Val(row)), additional_bytes,
                              TierOf(Val(row))))
           ELSE Continue(p, "csl_documents", NoSession)
    /\ UNCHANGED << organizations, documents, usage_events, usage_limits, holder, usage0 >>

CheckStorageLimit(p) ==
    \E org_id \in OrgIds, additional_bytes \in AdditionalBytes :
        /\ MayCall(p)
        /\ check_storage_limit(p, org_id, additional_bytes)

\* a variant of CheckStorageLimitDocuments: the sum is kept in a new row
CheckStorageLimitDocumentsKeepsSum(p) ==
    /\ pc[p] = "csl_documents"
    /\ LET row == Val(organizations[call[p].org_id])
           current_bytes == compute_storage_from_documents(documents, call[p].org_id)
       IN  /\ Return(p, StorageLimitResult(current_bytes, LimitBytesOf(row),
                                           call[p].n, TierOf(row)))
           /\ usage_limits' = [usage_limits EXCEPT
                                  ![call[p].org_id] = Some(NewUsageRow(current_bytes, 0))]
    /\ UNCHANGED << organizations, documents, usage_events, holder, call, usage0, hist >>

\* the fallback: current_bytes is the sum over the documents
CheckStorageLimitDocuments(p) ==
    /\ pc[p] = "csl_documents"
    /\ LET row == Val(organizations[call[p].org_id])
       IN  Return(p, StorageLimitResult(
                         compute_storage_from_documents(documents, call[p].org_id),
                         LimitBytesOf(row), call[p].n, TierOf(row)))
    /\ UNCHANGED << organizations, documents, usage_events, usage_limits, holder, call, usage0, hist >>

(***************************************************************************)
(* check_token_limit(org_id, estimated_tokens): one SELECT, the join of    *)
(* usage_limits with organizations and, outer, subscription_plans.         *)
(***************************************************************************)
CheckTokenLimit(p) ==
    \E org_id \in OrgIds, estimated_tokens \in EstimatedTokens :
        /\ MayCall(p)
        /\ Begin(p, "check_token_limit", org_id, estimated_tokens)
        /\ LET row == organizations[org_id]
               usage == usage_limits[org_id]
           IN  IF IsNull(usage) \/ IsNull(row)
               THEN Return(p, TokenNoRow)
               ELSE Return(p, TokenLimitResult(Val(usage), PlanOf(Val(row)),
                                               estimated_tokens))
        /\ UNCHANGED << organizations, documents, usage_events, usage_limits, holder, usage0 >>

(***************************************************************************)
(* The statements of a commit, shared by update_storage_used and           *)
(* update_tokens_used.                                                     *)
(***************************************************************************)
\* a variant of SelectForUpdate: the lock is on the table, not on the row
SelectForUpdateLocksTable(p, next) ==
    LET org_id == call[p].org_id
        usage == usage_limits[org_id]
    IN  /\ IsNull(usage) \/ \A o \in OrgIds : holder[o] = 0
        /\ holder' = IF IsNull(usage) THEN holder ELSE [holder EXCEPT ![org_id] = p]
        /\ Continue(p, next, [NoSession EXCEPT !.usage = usage])

\* SELECT ... WHERE organization_id = :org_id FOR UPDATE.  A committed row
\* is locked and read once no other transaction holds it; if there is no
\* committed row the statement returns no row and locks nothing.
SelectForUpdate(p, next) ==
    LET org_id == call[p].org_id
        usage == usage_limits[org_id]
    IN  /\ IsNull(usage) \/ holder[org_id] = 0
        /\ holder' = IF IsNull(usage) THEN holder ELSE [holder EXCEPT ![org_id] = p]
        /\ Continue(p, next, [NoSession EXCEPT !.usage = usage])

\* session.flush(): the UPDATE of the row the session holds, or the INSERT
\* of the row it added.  The INSERT waits while another open transaction
\* holds a row of the same organization_id, and fails on the unique
\* organization_id if a row is committed and on the foreign key if the
\* organization does not exist.
Flush(p, next, new_value) ==
    LET org_id == call[p].org_id
    IN  IF ~IsNull(session[p].usage)
        THEN /\ Continue(p, next, [session[p] EXCEPT !.new_value = new_value,
                                                    !.write = "update"])
             /\ UNCHANGED << holder, hist >>
        ELSE IF IsNull(organizations[org_id]) \/ ~IsNull(usage_limits[org_id])
        THEN Raise(p)
        ELSE /\ holder[org_id] = 0
             /\ holder' = [holder EXCEPT ![org_id] = p]
             /\ Continue(p, next, [session[p] EXCEPT !.new_value = new_value,
                                                    !.write = "insert"])
             /\ UNCHANGED << hist >>

\* COMMIT: the row written becomes the committed row and is released
Commit(p, row) ==
    LET org_id == call[p].org_id
    IN  /\ usage_limits' = [usage_limits EXCEPT ![org_id] = Some(row)]
        /\ holder' = [holder EXCEPT ![org_id] = 0]
        /\ Return(p, session[p].new_value)

(***************************************************************************)
(* update_storage_used(org_id, delta_bytes)                                *)
(***************************************************************************)
update_storage_used(p, org_id, delta_bytes) ==
    /\ Begin(p, "update_storage_used", org_id, delta_bytes)
    /\ Continue(p, "usu_select", NoSession)
    /\ UNCHANGED << organizations, documents, usage_events, usage_limits, holder, usage0 >>

UpdateStorageUsed(p) ==
    \E org_id \in OrgIds, delta_bytes \in DeltaBytes :
        /\ MayCall(p)
        /\ update_storage_used(p, org_id, delta_bytes)

\* a variant of UpdateStorageUsedSelect: a plain SELECT, the row is read and
\* not locked
UpdateStorageUsedSelectNoLock(p) ==
    /\ pc[p] = "usu_select"
    /\ Continue(p, "usu_flush", [NoSession EXCEPT !.usage = usage_limits[call[p].org_id]])
    /\ UNCHANGED << organizations, documents, usage_events, usage_limits, holder, call,
                    usage0, hist >>

UpdateStorageUsedSelect(p) ==
    /\ pc[p] = "usu_select"
    /\ SelectForUpdate(p, "usu_flush")
    /\ UNCHANGED << organizations, documents, usage_events, usage_limits, call, usage0, hist >>

UpdateStorageUsedFlush(p) ==
    /\ pc[p] = "usu_flush"
    /\ Flush(p, "usu_commit", NewStorageValue(session[p].usage, call[p].n))
    /\ UNCHANGED << organizations, documents, usage_events, usage_limits, call, usage0 >>

UpdateStorageUsedCommit(p) ==
    /\ pc[p] = "usu_commit"
    /\ Commit(p, IF session[p].write = "update"
                 THEN [Val(session[p].usage) EXCEPT
                          !.storage_used_bytes = Some(session[p].new_value)]
                 ELSE NewUsageRow(session[p].new_value, 0))
    /\ UNCHANGED << organizations, documents, usage_events, call, usage0, hist >>

(***************************************************************************)
(* update_tokens_used(org_id, tokens)                                      *)
(***************************************************************************)
update_tokens_used(p, org_id, tokens) ==
    /\ Begin(p, "update_tokens_used", org_id, tokens)
    /\ Continue(p, "utu_select", NoSession)
    /\ UNCHANGED << organizations, documents, usage_events, usage_limits, holder, usage0 >>

UpdateTokensUsed(p) ==
    \E org_id \in OrgIds, tokens \in TokenCounts :
        /\ MayCall(p)
        /\ update_tokens_used(p, org_id, tokens)

UpdateTokensUsedSelect(p) ==
    /\ pc[p] = "utu_select"
    /\ SelectForUpdate(p, "utu_flush")
    /\ UNCHANGED << organizations, documents, usage_events, usage_limits, call, usage0, hist >>

UpdateTokensUsedFlush(p) ==
    /\ pc[p] = "utu_flush"
    /\ Flush(p, "utu_commit", NewTokenValue(session[p].usage, call[p].n))
    /\ UNCHANGED << organizations, documents, usage_events, usage_limits, call, usage0 >>

UpdateTokensUsedCommit(p) ==
    /\ pc[p] = "utu_commit"
    /\ Commit(p, IF session[p].write = "update"
                 THEN [Val(session[p].usage) EXCEPT
                          !.credit_used_this_period = Some(session[p].new_value)]
                 ELSE NewUsageRow(0, session[p].new_value))
    /\ hist' = [hist EXCEPT !.tokens_returned[call[p].org_id] = Some(session[p].new_value)]
    /\ UNCHANGED << organizations, documents, usage_events, call, usage0 >>

(***************************************************************************)
(* recalculate_storage(org_id): the documents are summed, then one         *)
(* INSERT ... ON CONFLICT (organization_id) DO UPDATE writes the sum.      *)
(***************************************************************************)
\* a variant of RecalculateStorage: the sum is added to what the counter holds
RecalculateStorageOnCounter(p) ==
    \E org_id \in OrgIds :
        /\ MayCall(p)
        /\ Begin(p, "recalculate_storage", org_id, 0)
        /\ Continue(p, "rs_upsert",
                    [NoSession EXCEPT
                        !.new_value =
                            (IF IsNull(usage_limits[org_id]) THEN 0
                             ELSE OrZero(Val(usage_limits[org_id]).storage_used_bytes))
                            + compute_storage_from_documents(documents, org_id)])
        /\ UNCHANGED << organizations, documents, usage_events, usage_limits, holder, usage0 >>

\* the call, and its first statement: the sum over the documents
recalculate_storage(p, org_id) ==
    /\ Begin(p, "recalculate_storage", org_id, 0)
    /\ Continue(p, "rs_upsert",
                [NoSession EXCEPT
                    !.new_value = compute_storage_from_documents(documents, org_id)])
    /\ UNCHANGED << organizations, documents, usage_events, usage_limits, holder, usage0 >>

RecalculateStorage(p) ==
    \E org_id \in OrgIds :
        /\ MayCall(p)
        /\ recalculate_storage(p, org_id)

\* the upsert: it fails on the foreign key if the organization does not
\* exist, waits while another open transaction holds a row of the
\* organization, then inserts the row or, on the conflict, locks the
\* committed row and sets its storage_used_bytes
RecalculateStorageUpsert(p) ==
    /\ pc[p] = "rs_upsert"
    /\ LET org_id == call[p].org_id
           usage == usage_limits[org_id]
       IN  IF IsNull(organizations[org_id])
           THEN Raise(p)
           ELSE /\ holder[org_id] = 0
                /\ holder' = [holder EXCEPT ![org_id] = p]
                /\ Continue(p, "rs_commit",
                            [session[p] EXCEPT
                                !.usage = usage,
                                !.write = IF IsNull(usage) THEN "insert" ELSE "update"])
                /\ UNCHANGED << hist >>
    /\ UNCHANGED << organizations, documents, usage_events, usage_limits, call, usage0 >>

RecalculateStorageCommit(p) ==
    /\ pc[p] = "rs_commit"
    /\ Commit(p, IF session[p].write = "update"
                 THEN [Val(session[p].usage) EXCEPT
                          !.storage_used_bytes = Some(session[p].new_value)]
                 ELSE NewUsageRow(session[p].new_value, 0))
    /\ hist' = [hist EXCEPT
                  !.last_recalc =
                      Some([org_id |-> call[p].org_id,
                            value |-> session[p].new_value,
                            table |-> usage_limits',
                            count |-> IF ~IsNull(@) /\ Val(@).org_id = call[p].org_id
                                      THEN Val(@).count + 1 ELSE 1])]
    /\ UNCHANGED << organizations, documents, usage_events, call, usage0 >>

(***************************************************************************)
(* log_token_usage(org_id, ..., input_tokens, ..., request_id): one event  *)
(* row is added and flushed; every exception is caught and None returned.  *)
(***************************************************************************)
RequestIds == {NULL, Some("req_1")}

InputTokens == {60000}

\* UsageEventModel(id=str(uuid4()), ...): the id is a fresh one, here the
\* number of the call
UsageEvent(id, org_id, request_id, input_tokens) ==
    [id |-> id, organization_id |-> org_id, request_id |-> request_id,
     input_tokens |-> input_tokens]

\* the call: the event is built and added to the session
LogTokenUsage(p) ==
    \E org_id \in OrgIds, request_id \in RequestIds, input_tokens \in InputTokens :
        /\ MayCall(p)
        /\ pc[p] = "idle"
        /\ call' = [call EXCEPT ![p] = [op |-> "log_token_usage", org_id |-> org_id,
                                        n |-> input_tokens, request_id |-> request_id]]
        /\ hist' = [hist EXCEPT !.calls = @ + 1,
                                !.ops = @ \cup {"log_token_usage"},
                                !.requests = @ \cup {request_id},
                                !.last_recalc = NULL]
        /\ Continue(p, "ltu_flush",
                    [NoSession EXCEPT
                        !.event = Some(UsageEvent(hist.calls + 1, org_id, request_id,
                                                  input_tokens))])
        /\ UNCHANGED << organizations, documents, usage_events, usage_limits, holder, usage0 >>

\* a variant of ReturnNone: the exception reaches the caller
ReturnNoneReraises(p) ==
    /\ pc' = [pc EXCEPT ![p] = "idle"]
    /\ session' = [session EXCEPT ![p] = NoSession]
    /\ result' = [result EXCEPT ![p] = [status |-> "raised", value |-> NULL]]

\* except Exception: the transaction is rolled back and the call returns None
ReturnNone(p) ==
    /\ pc' = [pc EXCEPT ![p] = "idle"]
    /\ session' = [session EXCEPT ![p] = NoSession]
    /\ result' = [result EXCEPT ![p] = [status |-> "returned", value |-> Some(NULL)]]

\* another open transaction has inserted, and not yet committed, an event
\* with the request id
RequestIdHeld(p, request_id) ==
    \E q \in AllProcs \ {p} :
        /\ pc[q] = "ltu_commit"
        /\ Val(session[q].event).request_id = request_id

\* a variant of LogTokenUsageFlush: request_id is not unique
LogTokenUsageFlushAnyRequestId(p) ==
    /\ pc[p] = "ltu_flush"
    /\ IF IsNull(organizations[Val(session[p].event).organization_id])
       THEN ReturnNone(p)
       ELSE Continue(p, "ltu_commit", session[p])
    /\ UNCHANGED << organizations, documents, usage_events, usage_limits, holder, call,
                    usage0, hist >>

\* session.flush(): the INSERT.  It fails on the foreign key if the
\* organization does not exist and on the unique request_id if a committed
\* event has it, and waits while another open transaction holds it.
LogTokenUsageFlush(p) ==
    /\ pc[p] = "ltu_flush"
    /\ LET event == Val(session[p].event)
       IN  IF \/ IsNull(organizations[event.organization_id])
              \/ /\ ~IsNull(event.request_id)
                 /\ \E e \in usage_events : e.request_id = event.request_id
           THEN ReturnNone(p)
           ELSE /\ IsNull(event.request_id) \/ ~RequestIdHeld(p, event.request_id)
                /\ Continue(p, "ltu_commit", session[p])
    /\ UNCHANGED << organizations, documents, usage_events, usage_limits, holder, call,
                    usage0, hist >>

\* a variant of LogTokenUsageCommit: the tokens logged count against the quota
LogTokenUsageCommitCounts(p) ==
    /\ pc[p] = "ltu_commit"
    /\ usage_events' = usage_events \cup {Val(session[p].event)}
    /\ Return(p, Some(Val(session[p].event).id))
    /\ LET org_id == call[p].org_id
           usage == usage_limits[org_id]
       IN  usage_limits' =
               [usage_limits EXCEPT
                   ![org_id] = IF IsNull(usage)
                               THEN Some(NewUsageRow(0, call[p].n))
                               ELSE Some([Val(usage) EXCEPT
                                            !.credit_used_this_period =
                                                Some(OrZero(@) + call[p].n)])]
    /\ UNCHANGED << organizations, documents, holder, call, usage0, hist >>

\* return event.id, and the COMMIT on leaving the session
LogTokenUsageCommit(p) ==
    /\ pc[p] = "ltu_commit"
    /\ usage_events' = usage_events \cup {Val(session[p].event)}
    /\ Return(p, Some(Val(session[p].event).id))
    /\ UNCHANGED << organizations, documents, usage_limits, holder, call, usage0, hist >>

(***************************************************************************)
(* The specifications.                                                     *)
(***************************************************************************)
Step(p) ==
    \/ CheckStorageLimit(p)
    \/ CheckStorageLimitDocuments(p)
    \/ CheckTokenLimit(p)
    \/ UpdateStorageUsed(p)
    \/ UpdateStorageUsedSelect(p)
    \/ UpdateStorageUsedFlush(p)
    \/ UpdateStorageUsedCommit(p)
    \/ UpdateTokensUsed(p)
    \/ UpdateTokensUsedSelect(p)
    \/ UpdateTokensUsedFlush(p)
    \/ UpdateTokensUsedCommit(p)
    \/ RecalculateStorage(p)
    \/ RecalculateStorageUpsert(p)
    \/ RecalculateStorageCommit(p)
    \/ LogTokenUsage(p)
    \/ LogTokenUsageFlush(p)
    \/ LogTokenUsageCommit(p)

\* concurrent callers
Next == \E p \in Procs : Step(p)

Spec == Init /\ [][Next]_vars

\* one caller: each call ends before the next begins
NextSeq == Step(1)

SpecSeq == InitSeq /\ [][NextSeq]_vars

(***************************************************************************)
(* Upload workers, the callers of the storage accountant: a worker checks  *)
(* the limit for the size of its file, goes on only if the check allows    *)
(* it, and then commits the size as the delta.                             *)
(***************************************************************************)
UploadSizes == {100000, 1024 * 1024}

UploadCheck(p) ==
    \E size \in UploadSizes :
        /\ call[p].op = "none"
        /\ check_storage_limit(p, "org_a", size)

UploadCommit(p) ==
    /\ call[p].op = "check_storage_limit"
    /\ result[p].status = "returned"
    /\ Val(result[p].value).allowed
    /\ update_storage_used(p, call[p].org_id, call[p].n)

InitUpload ==
    /\ organizations = [o \in OrgIds |->
                           IF o = "org_a"
                           THEN Some([plan_type |-> "starter", plan_id |-> "plan_capped"])
                           ELSE Some(FreeOrg)]
    /\ documents \in {{}, {Doc(1, "org_a", 10, TRUE)}}
    /\ usage_limits \in [OrgIds -> {NULL} \cup {Some(StorageRow(u, NULL)) :
                                                   u \in {0, 900000, 1200000}}]
    /\ usage_limits["org_b"] = Some(StorageRow(0, NULL))
    /\ InitCallers

NextUpload ==
    \E p \in Workers :
        \/ UploadCheck(p)
        \/ CheckStorageLimitDocuments(p)
        \/ UploadCommit(p)
        \/ UpdateStorageUsedSelect(p)
        \/ UpdateStorageUsedFlush(p)
        \/ UpdateStorageUsedCommit(p)

SpecUpload == InitUpload /\ [][NextUpload]_vars

(***************************************************************************)
(* A run of calls made one after another, the k-th through session k, so   *)
(* that what every call of the run returned stays in view: checks of       *)
(* either organization, and commits of bytes and of tokens for org_a.      *)
(* The two organizations start as twins: the same organization row, the    *)
(* same counter and the same documents, and usage_limits rows that differ  *)
(* at most in the cached storage_limit_bytes.                              *)
(***************************************************************************)
\* session p is the next in the run: the calls before it have ended
RunOrder(p) ==
    /\ call[p].op = "none"
    /\ \A q \in Workers : q < p => call[q].op # "none" /\ pc[q] = "idle"

RunAdditionalBytes == {0, 200000}

RunCheckStorageLimit(p) ==
    \E org_id \in OrgIds, additional_bytes \in RunAdditionalBytes :
        /\ RunOrder(p)
        /\ check_storage_limit(p, org_id, additional_bytes)

RunUpdateStorageUsed(p) ==
    \E delta_bytes \in DeltaBytes :
        /\ RunOrder(p)
        /\ update_storage_used(p, "org_a", delta_bytes)

RunUpdateTokensUsed(p) ==
    \E tokens \in TokenCounts :
        /\ RunOrder(p)
        /\ update_tokens_used(p, "org_a", tokens)

RunOrgRows ==
    {FreeOrg,
     [plan_type |-> "starter", plan_id |-> "plan_capped"],
     [plan_type |-> "", plan_id |-> "plan_uncapped"],
     [plan_type |-> "enterprise", plan_id |-> "plan_zero"]}

CachedLimits == {NULL, Some(1000000)}

RunDocuments ==
    {Doc(1, "org_a", 10, TRUE), Doc(2, "org_a", 20, TRUE), Doc(3, "org_a", 40, FALSE),
     Doc(4, "org_b", 10, TRUE), Doc(5, "org_b", 20, TRUE), Doc(6, "org_b", 40, FALSE)}

InitRun ==
    /\ organizations \in [OrgIds -> {Some(o) : o \in RunOrgRows}]
    /\ organizations["org_a"] = organizations["org_b"]
    /\ \/ /\ usage_limits = [o \in OrgIds |-> NULL]
          /\ documents \in {{}, RunDocuments}
       \/ /\ \E u \in {0, 900000, 1200000} :
                 usage_limits \in [OrgIds -> {Some(StorageRow(u, c)) : c \in CachedLimits}]
          /\ documents = {}
    /\ ForeignKeys
    /\ InitCallers

NextRun ==
    \E p \in Workers :
        \/ RunCheckStorageLimit(p)
        \/ CheckStorageLimitDocuments(p)
        \/ RunUpdateStorageUsed(p)
        \/ UpdateStorageUsedSelect(p)
        \/ UpdateStorageUsedFlush(p)
        \/ UpdateStorageUsedCommit(p)
        \/ RunUpdateTokensUsed(p)
        \/ UpdateTokensUsedSelect(p)
        \/ UpdateTokensUsedFlush(p)
        \/ UpdateTokensUsedCommit(p)

SpecRun == InitRun /\ [][NextRun]_vars

(***************************************************************************)
(* Reconciliation beside uploads.  A caller either reconciles org_a or     *)
(* uploads a file to it: the upload path stores the document row, in a     *)
(* transaction of its own, and commits the size of the file as the delta,  *)
(* the one before the other.  The counter starts equal to the documents.   *)
(***************************************************************************)
\* the document row that the upload of caller p stores
UploadedDocument(p, size) == Doc(100 + p, "org_a", size, TRUE)

HasUploadedDocument(p) == \E d \in documents : d.id = 100 + p

\* the document row is stored, before the delta is committed or after
UploaderInsertDocument(p) ==
    /\ ~HasUploadedDocument(p)
    /\ \/ /\ call[p].op = "none"
          /\ \E size \in UploadSizes : documents' = documents \cup {UploadedDocument(p, size)}
       \/ /\ call[p].op = "update_storage_used"
          /\ pc[p] = "idle"
          /\ result[p].status = "returned"
          /\ documents' = documents \cup {UploadedDocument(p, call[p].n)}
    /\ UNCHANGED << organizations, usage_limits, usage_events, holder, pc, call, session,
                    result, usage0, hist >>

\* the delta is committed, before the document row is stored or after
UploaderCommit(p) ==
    /\ call[p].op = "none"
    /\ \E size \in UploadSizes :
           /\ HasUploadedDocument(p) => UploadedDocument(p, size) \in documents
           /\ update_storage_used(p, "org_a", size)

Reconcile(p) ==
    /\ call[p].op = "none"
    /\ ~HasUploadedDocument(p)
    /\ recalculate_storage(p, "org_a")

InitReconcile ==
    /\ organizations = [o \in OrgIds |-> Some(FreeOrg)]
    /\ \/ /\ documents = {Doc(1, "org_a", 10, TRUE), Doc(2, "org_a", 20, TRUE),
                           Doc(3, "org_a", 40, FALSE)}
          /\ usage_limits = [o \in OrgIds |->
                                 IF o = "org_a" THEN Some(StorageRow(30, NULL)) ELSE NULL]
       \/ /\ documents = {}
          /\ usage_limits \in [OrgIds -> {NULL, Some(StorageRow(0, NULL))}]
          /\ usage_limits["org_b"] = NULL
    /\ InitCallers

NextReconcile ==
    \E p \in Procs :
        \/ UploaderInsertDocument(p)
        \/ UploaderCommit(p)
        \/ UpdateStorageUsedSelect(p)
        \/ UpdateStorageUsedFlush(p)
        \/ UpdateStorageUsedCommit(p)
        \/ Reconcile(p)
        \/ RecalculateStorageUpsert(p)
        \/ RecalculateStorageCommit(p)

SpecReconcile == InitReconcile /\ [][NextReconcile]_vars

(***************************************************************************)
(* What the claims speak of.                                               *)
(***************************************************************************)
AllIdle == \A p \in Procs : pc[p] = "idle"

\* the counters of an organization in a usage_limits table; no row counts as 0
StorageIn(table, org_id) ==
    IF IsNull(table[org_id]) THEN 0 ELSE OrZero(Val(table[org_id]).storage_used_bytes)

CreditIn(table, org_id) ==
    IF IsNull(table[org_id]) THEN 0 ELSE OrZero(Val(table[org_id]).credit_used_this_period)

(***************************************************************************)
(* C1.  No lost storage updates: when the only calls made are              *)
(* update_storage_used calls with non-negative deltas, run concurrently,   *)
(* then once all have returned none has raised and storage_used_bytes of   *)
(* every organization is its starting value plus the deltas passed for     *)
(* it, whether or not its usage_limits row existed at the start.           *)
(***************************************************************************)
C1_NoLostStorageUpdate ==
    (AllIdle /\ hist.ops \subseteq {"update_storage_used"} /\ ~hist.negative)
        => /\ hist.raised = 0
           /\ \A o \in OrgIds :
                  StorageIn(usage_limits, o) = StorageIn(usage0, o) + hist.delta_sum[o]

\* C1, where the usage_limits row exists at the start: the row lock keeps
\* every delta
C1_NoLostStorageUpdateOnRow ==
    (AllIdle /\ hist.ops \subseteq {"update_storage_used"} /\ ~hist.negative)
        => \A o \in OrgIds :
               ~IsNull(usage0[o]) =>
                   StorageIn(usage_limits, o) = StorageIn(usage0, o) + hist.delta_sum[o]

(***************************************************************************)
(* C2.  Bounded overshoot: with concurrent upload workers that each check, *)
(* go on only if allowed and then commit their size, storage_used_bytes    *)
(* never exceeds the resolved limit_bytes by more than the size of one     *)
(* in-flight operation.                                                    *)
(***************************************************************************)
RECURSIVE SumOver(_, _)
SumOver(f, S) ==
    IF S = {} THEN 0
    ELSE LET x == CHOOSE y \in S : TRUE IN f[x] + SumOver(f, S \ {x})

\* the workers that have begun, and the sizes of their uploads
Uploading == {p \in Workers : call[p].op # "none"}

UploadSize == [p \in Workers |-> call[p].n]

LargestUpload ==
    IF Uploading = {} THEN 0
    ELSE CHOOSE n \in {UploadSize[p] : p \in Uploading} :
             \A p \in Uploading : UploadSize[p] <= n

SmallestUpload ==
    IF Uploading = {} THEN 0
    ELSE CHOOSE n \in {UploadSize[p] : p \in Uploading} :
             \A p \in Uploading : UploadSize[p] >= n

UploadLimit == LimitBytesOf(Val(organizations["org_a"]))

\* C2 as stated: the overshoot is at most one operation's size
C2_OvershootOneOperation ==
    StorageIn(usage0, "org_a") <= UploadLimit
        => StorageIn(usage_limits, "org_a") <= UploadLimit + LargestUpload

\* C2 as amended: storage_used_bytes never exceeds the larger of its
\* starting value and limit_bytes plus the sizes of all the workers'
\* operations but one
C2_OvershootAllButOne ==
    StorageIn(usage_limits, "org_a")
        <= Max(StorageIn(usage0, "org_a"),
               UploadLimit + SumOver(UploadSize, Uploading) - SmallestUpload)

\* the counter started within the limit and the workers have taken it
\* beyond the limit by more than the largest of their operations
C2_Witness ==
    /\ StorageIn(usage0, "org_a") <= UploadLimit
    /\ StorageIn(usage_limits, "org_a") > UploadLimit + LargestUpload
    /\ \A p \in Workers : pc[p] = "idle" /\ call[p].op = "update_storage_used"

(***************************************************************************)
(* The call of the one caller of SpecSeq.                                  *)
(***************************************************************************)
\* the caller's call of op has returned, and no later call has begun
Returned(op) ==
    /\ pc[1] = "idle"
    /\ call[1].op = op
    /\ result[1].status = "returned"

\* the value it returned
Value == Val(result[1].value)

\* the step begins a call of op; the step returns from the documents sum
BeginsCall(op) ==
    /\ pc[1] = "idle"
    /\ hist'.calls = hist.calls + 1
    /\ call'[1].op = op

ReturnsFromDocuments == pc[1] = "csl_documents" /\ pc'[1] = "idle"

(***************************************************************************)
(* C3.  check_storage_limit is a pure read: every step of a call of it,    *)
(* for every organization state and every additional_bytes, the documents  *)
(* fallback and the organization-not-found path among them, leaves the     *)
(* usage_limits table as it is: no row is created and no counter changes.  *)
(***************************************************************************)
C3_CheckStorageLimitPureRead ==
    [][(BeginsCall("check_storage_limit") \/ ReturnsFromDocuments)
           => usage_limits' = usage_limits]_vars

\* a check has returned through the documents fallback
C3_Witness ==
    /\ Returned("check_storage_limit")
    /\ hist.ops = {"check_storage_limit"}
    /\ ~IsNull(organizations[call[1].org_id])
    /\ IsNull(usage_limits[call[1].org_id])
    /\ documents # {}
    /\ Value.current_bytes > 0

(***************************************************************************)
(* C4.  For an existing organization check_storage_limit returns           *)
(* allowed = (current_bytes + additional_bytes <= limit_bytes), equality   *)
(* allowed, and remaining_bytes = max(0, limit_bytes - current_bytes);     *)
(* when the limit resolves to null (a plan whose max_storage_mb is NULL,   *)
(* "NULL = unlimited") the result is allowed = true for every              *)
(* additional_bytes >= 0.  With limit 1_000_000 and 900_000 used, 50_000   *)
(* more is allowed with 100_000 remaining and 200_000 more is denied.      *)
(***************************************************************************)
\* the plan of the organization sets no storage cap: max_storage_mb is NULL
UnlimitedStorage(org_id) ==
    /\ ~IsNull(organizations[org_id])
    /\ ~IsNull(PlanOf(Val(organizations[org_id])))
    /\ IsNull(Val(PlanOf(Val(organizations[org_id]))).max_storage_mb)

\* the decision on the numbers of the result
C4_Arithmetic ==
    (Returned("check_storage_limit") /\ ~IsNull(organizations[call[1].org_id]))
        => /\ ~IsNull(Value.limit_bytes)
           /\ Value.allowed
                  <=> Value.current_bytes + call[1].n <= Val(Value.limit_bytes)
           /\ Value.remaining_bytes
                  = Some(Max(0, Val(Value.limit_bytes) - Value.current_bytes))

C4_Scenario ==
    /\ StorageLimitResult(900000, 1000000, 50000, "free").allowed
    /\ StorageLimitResult(900000, 1000000, 50000, "free").remaining_bytes = Some(100000)
    /\ StorageLimitResult(900000, 1000000, 100000, "free").allowed
    /\ ~StorageLimitResult(900000, 1000000, 200000, "free").allowed

\* no limit, no denial
C4_UnlimitedAllowed ==
    (Returned("check_storage_limit") /\ UnlimitedStorage(call[1].org_id))
        => Value.allowed

C4_StorageDecision == C4_Arithmetic /\ C4_Scenario /\ C4_UnlimitedAllowed

(***************************************************************************)
(* C5.  For an existing organization with no usage_limits row,             *)
(* check_storage_limit does not answer from a zero but goes on to the      *)
(* documents, and reports as current_bytes the sum of file_size over the   *)
(* organization's active documents: 10 + 20 + 30 gives 60; inactive        *)
(* documents and other organizations' documents are not counted.           *)
(***************************************************************************)
\* the sum, document id by document id
C5_ActiveBytes(org_id) ==
    LET ids == {d.id : d \in documents}
        doc(i) == CHOOSE d \in documents : d.id = i
        size == [i \in ids |->
                    IF doc(i).organization_id = org_id /\ doc(i).is_active = TRUE
                    THEN doc(i).file_size ELSE 0]
    IN  SumOver(size, ids)

C5_Scenario ==
    {Doc(1, "org_a", 10, TRUE), Doc(2, "org_a", 20, TRUE), Doc(3, "org_a", 30, TRUE),
     Doc(4, "org_a", 40, FALSE), Doc(5, "org_b", 50, TRUE)}

C5_FallbackSumsActiveDocuments ==
    [][/\ (/\ BeginsCall("check_storage_limit")
           /\ ~IsNull(organizations[call'[1].org_id])
           /\ IsNull(usage_limits[call'[1].org_id]))
              => pc'[1] = "csl_documents"
       /\ ReturnsFromDocuments
              => /\ result'[1].status = "returned"
                 /\ Val(result'[1].value).current_bytes = C5_ActiveBytes(call[1].org_id)
                 /\ (documents = C5_Scenario /\ call[1].org_id = "org_a")
                        => Val(result'[1].value).current_bytes = 60]_vars

C5_Witness ==
    /\ Returned("check_storage_limit")
    /\ hist.calls = 1
    /\ call[1].org_id = "org_a"
    /\ IsNull(usage_limits["org_a"])
    /\ documents = C5_Scenario
    /\ Value.current_bytes = 60

(***************************************************************************)
(* C6.  When the organization id matches no organization,                  *)
(* check_storage_limit does not raise: for every additional_bytes, 0       *)
(* included, it returns a result with allowed = false and tier "unknown".  *)
(***************************************************************************)
C6_NotFoundDenied ==
    (/\ pc[1] = "idle"
     /\ call[1].op = "check_storage_limit"
     /\ IsNull(organizations[call[1].org_id]))
        => /\ result[1].status = "returned"
           /\ Value.allowed = FALSE
           /\ Value.tier = "unknown"

C6_Witness ==
    /\ Returned("check_storage_limit")
    /\ IsNull(organizations[call[1].org_id])
    /\ call[1].n = 0
    /\ Value.tier = "unknown"

(***************************************************************************)
(* C7.  For an organization with no usage_limits row, check_token_limit    *)
(* returns allowed = true with monthly_limit and remaining_tokens null,    *)
(* for every estimated_tokens, also when the plan of the organization      *)
(* carries a monthly token cap.                                            *)
(***************************************************************************)
C7_NoRowUnlimited ==
    (Returned("check_token_limit") /\ IsNull(usage_limits[call[1].org_id]))
        => /\ Value.allowed = TRUE
           /\ IsNull(Value.monthly_limit)
           /\ IsNull(Value.remaining_tokens)

\* the plan caps the month at 300000 tokens, and 60000 are asked for
C7_Witness ==
    /\ Returned("check_token_limit")
    /\ IsNull(usage_limits[call[1].org_id])
    /\ ~IsNull(organizations[call[1].org_id])
    /\ Val(organizations[call[1].org_id]).plan_id = "plan_capped"
    /\ call[1].n = 60000
    /\ Value.allowed

(***************************************************************************)
(* C8.  After update_tokens_used(org, t) has returned v = old + t, the     *)
(* next check_token_limit(org, 0) reports tokens_used_this_period = v,     *)
(* and when v is above the monthly limit L it returns allowed = false      *)
(* with percentage_used = v / L * 100, not capped at 100: 450_000 + 60_000 *)
(* against 500_000 gives 510_000, allowed = false and 102.0.               *)
(***************************************************************************)
Abs(x) == IF x >= 0 THEN x ELSE -x

\* h hundredths of a percent is v / L * 100 rounded to two decimals: h * L
\* is within L / 2 of 10000 * v (L is a multiple of 1000; both sides are
\* taken in thousands)
C8_IsPercentage(h, v, L) ==
    L % 1000 = 0 /\ 2 * Abs(h * (L \div 1000) - 10 * v) <= L \div 1000

C8_CheckAfterCommit ==
    \A o \in OrgIds :
        (/\ Returned("check_token_limit")
         /\ call[1].org_id = o
         /\ call[1].n = 0
         /\ ~IsNull(hist.tokens_returned[o]))
            => LET v == Val(hist.tokens_returned[o])
                   L == Value.monthly_limit
               IN  /\ v = CreditIn(usage0, o) + hist.token_sum[o]
                   /\ Value.tokens_used_this_period = v
                   /\ (~IsNull(L) /\ Val(L) > 0 /\ v > Val(L))
                          => /\ Value.allowed = FALSE
                             /\ Value.percentage_used > 10000
                             /\ C8_IsPercentage(Value.percentage_used, v, Val(L))
                   /\ (v = 510000 /\ L = Some(500000))
                          => Value.percentage_used = 10200

C8_Witness ==
    /\ Returned("check_token_limit")
    /\ call[1].n = 0
    /\ CreditIn(usage0, call[1].org_id) = 450000
    /\ hist.tokens_returned[call[1].org_id] = Some(510000)
    /\ Value.monthly_limit = Some(500000)
    /\ Value.tokens_used_this_period = 510000
    /\ Value.allowed = FALSE
    /\ Value.percentage_used = 10200

(***************************************************************************)
(* C9.  No lost token updates: when the only calls made are                *)
(* update_tokens_used calls, run concurrently on an organization, then     *)
(* once all have returned none has raised and credit_used_this_period is   *)
(* its starting value plus the token counts passed, also when the          *)
(* usage_limits row has first to be created.                               *)
(***************************************************************************)
C9_NoLostTokenUpdate ==
    (AllIdle /\ hist.ops \subseteq {"update_tokens_used"} /\ ~hist.negative)
        => /\ hist.raised = 0
           /\ \A o \in OrgIds :
                  CreditIn(usage_limits, o) = CreditIn(usage0, o) + hist.token_sum[o]

\* C9, where the usage_limits row exists at the start
C9_NoLostTokenUpdateOnRow ==
    (AllIdle /\ hist.ops \subseteq {"update_tokens_used"} /\ ~hist.negative)
        => \A o \in OrgIds :
               ~IsNull(usage0[o]) =>
                   CreditIn(usage_limits, o) = CreditIn(usage0, o) + hist.token_sum[o]

(***************************************************************************)
(* C10.  Token usage is monotonic within a period: whatever tokens         *)
(* argument a caller passes, no step of update_tokens_used lowers          *)
(* credit_used_this_period, and the counter is never negative.             *)
(***************************************************************************)
C10_TokensMonotonic ==
    [][\A o \in OrgIds :
           /\ CreditIn(usage_limits', o) >= CreditIn(usage_limits, o)
           /\ CreditIn(usage_limits', o) >= 0]_vars

\* C10 for the callers that pass token counts >= 0 only
C10_TokensMonotonicNonNegative ==
    [][\A o \in OrgIds :
           ~hist'.negative => /\ CreditIn(usage_limits', o) >= CreditIn(usage_limits, o)
                              /\ CreditIn(usage_limits', o) >= 0]_vars

(***************************************************************************)
(* C11.  After recalculate_storage(org) completes with no concurrent       *)
(* operation, storage_used_bytes of org is the sum of file_size over the   *)
(* active documents of org, whatever the counter held before and whether   *)
(* or not a row existed: the row is inserted if absent, and its counter    *)
(* overwritten, not merged, if present; the call returns that sum.         *)
(***************************************************************************)
C11_RecalculateSetsSum ==
    Returned("recalculate_storage")
        => /\ Value = C5_ActiveBytes(call[1].org_id)
           /\ ~IsNull(usage_limits[call[1].org_id])
           /\ Val(usage_limits[call[1].org_id]).storage_used_bytes
                  = Some(C5_ActiveBytes(call[1].org_id))

\* a counter of 900000 is overwritten by the 60 bytes of the documents
C11_Witness ==
    /\ Returned("recalculate_storage")
    /\ hist.calls = 1
    /\ call[1].org_id = "org_a"
    /\ documents = C5_Scenario
    /\ StorageIn(usage0, "org_a") = 900000
    /\ StorageIn(usage_limits, "org_a") = 60
    /\ Value = 60

(***************************************************************************)
(* C12.  recalculate_storage is idempotent: called twice in a row on an    *)
(* organization, with no document change between, the second call returns  *)
(* the value the first returned and leaves the usage_limits table, with    *)
(* its one row for the organization, as the first call left it.            *)
(***************************************************************************)
C12_RecalculateIdempotent ==
    [][(/\ pc[1] = "rs_commit"
        /\ pc'[1] = "idle"
        /\ ~IsNull(hist.last_recalc)
        /\ Val(hist.last_recalc).org_id = call[1].org_id)
           => /\ result'[1] = [status |-> "returned",
                               value |-> Some(Val(hist.last_recalc).value)]
              /\ usage_limits' = Val(hist.last_recalc).table]_vars

\* the second of two calls in a row has returned; the first had a counter
\* to correct
C12_Witness ==
    /\ Returned("recalculate_storage")
    /\ ~IsNull(hist.last_recalc)
    /\ Val(hist.last_recalc).count = 2
    /\ documents # {}
    /\ Value > 0
    /\ usage0[call[1].org_id] # usage_limits[call[1].org_id]

(***************************************************************************)
(* C13.  Idempotent event logging: for every request id that is not null,  *)
(* whatever log_token_usage calls are made and however they interleave,    *)
(* usage_events holds at most one row with that request id, and two calls  *)
(* with the same request id, one after the other or concurrent, leave      *)
(* exactly one row.                                                        *)
(***************************************************************************)
C13_OneRowPerRequestId ==
    \A r \in RequestIds \ {NULL} :
        LET rows == {e \in usage_events : e.request_id = r}
        IN  /\ Cardinality(rows) <= 1
            /\ (/\ AllIdle
                /\ hist.ops = {"log_token_usage"}
                /\ hist.requests = {r}
                /\ hist.calls >= 2
                /\ \A o \in OrgIds : ~IsNull(organizations[o]))
                   => Cardinality(rows) = 1

\* two callers have logged the same request id: one got the id of its row,
\* the other None
C13_Witness ==
    /\ AllIdle
    /\ \A p \in {1, 2} : /\ call[p].op = "log_token_usage"
                         /\ call[p].request_id = Some("req_1")
                         /\ result[p].status = "returned"
    /\ \E p \in {1, 2} : IsNull(Val(result[p].value))
    /\ \E p \in {1, 2} : ~IsNull(Val(result[p].value))
    /\ Cardinality(usage_events) = 1

(***************************************************************************)
(* C14.  log_token_usage never raises to its caller: on a failure of the   *)
(* insert (the organization does not exist, the request id is a            *)
(* duplicate) it returns None and adds no event row; on success it         *)
(* returns the id of the one row it added.                                 *)
(***************************************************************************)
C14_LogNeverRaises ==
    [][\A p \in Procs :
           (call[p].op = "log_token_usage" /\ pc[p] # "idle" /\ pc'[p] = "idle")
               => /\ result'[p].status = "returned"
                  /\ LET id == Val(result'[p].value)
                     IN  IF IsNull(id)
                         THEN usage_events' = usage_events
                         ELSE \E e \in usage_events' \ usage_events :
                                  /\ usage_events' = usage_events \cup {e}
                                  /\ e.id = Val(id)
                                  /\ e.organization_id = call[p].org_id
                                  /\ e.request_id = call[p].request_id
                  /\ (\/ IsNull(organizations[call[p].org_id])
                      \/ /\ ~IsNull(call[p].request_id)
                         /\ \E e \in usage_events : e.request_id = call[p].request_id)
                         => IsNull(Val(result'[p].value))]_vars

\* a second call with a request id already logged has returned None
C14_Witness ==
    /\ Returned("log_token_usage")
    /\ IsNull(Value)
    /\ ~IsNull(organizations[call[1].org_id])
    /\ ~IsNull(call[1].request_id)
    /\ Cardinality({e \in usage_events : e.request_id = call[1].request_id}) = 1

(***************************************************************************)
(* C15.  Logging is decoupled from enforcement: no step of a               *)
(* log_token_usage call, whether the call succeeds or fails and whatever   *)
(* tokens it records, changes the usage_limits table:                      *)
(* credit_used_this_period and storage_used_bytes keep their values and    *)
(* no row is created.                                                      *)
(***************************************************************************)
C15_LogLeavesUsageLimits ==
    [][\A p \in Procs :
           (call'[p].op = "log_token_usage" /\ pc'[p] # pc[p])
               => usage_limits' = usage_limits]_vars

\* one call has logged 60000 tokens, another has failed, and the counters
\* are those of the start
C15_Witness ==
    /\ AllIdle
    /\ hist.ops = {"log_token_usage"}
    /\ \E p \in Procs : /\ call[p].op = "log_token_usage"
                        /\ call[p].n = 60000
                        /\ ~IsNull(Val(result[p].value))
    /\ \E p \in Procs : /\ call[p].op = "log_token_usage"
                        /\ IsNull(Val(result[p].value))
    /\ usage_events # {}
    /\ usage_limits = usage0

(***************************************************************************)
(* C16.  Bounded lock wait: an update_storage_used or update_tokens_used   *)
(* call that has to wait for the row lock of the organization, held by     *)
(* another transaction, waits only a bounded time: if the lock is not      *)
(* released the call ends with a timeout error, it never blocks forever.   *)
(* Without a clock, that is: a call at a statement that may wait can       *)
(* always take a step of its own, whatever the holder does.                *)
(***************************************************************************)
C16_LockWaitBounded ==
    \A p \in Procs :
        pc[p] \in {"usu_select", "usu_flush", "utu_select", "utu_flush"}
            => ENABLED Step(p)

(***************************************************************************)
(* C17.  Tenant isolation: no step of an update_storage_used,              *)
(* update_tokens_used or recalculate_storage call for organization A       *)
(* changes the usage_limits row of another organization B, and a commit    *)
(* for A is never made to wait by a lock held on the row of B: the call    *)
(* can go on whenever no other transaction holds the row of A.             *)
(***************************************************************************)
Commits == {"update_storage_used", "update_tokens_used", "recalculate_storage"}

C17_OtherRowsUnchanged ==
    \A p \in Procs :
        (call'[p].op \in Commits /\ pc'[p] # pc[p])
            => \A o \in OrgIds \ {call'[p].org_id} : usage_limits'[o] = usage_limits[o]

C17_NoWaitOnOtherRow ==
    \A p \in Procs :
        (/\ call[p].op \in Commits
         /\ pc[p] # "idle"
         /\ holder[call[p].org_id] \in {0, p})
            => ENABLED Step(p)

C17_TenantIsolation == [][C17_OtherRowsUnchanged]_vars /\ []C17_NoWaitOnOtherRow

\* a commit for org_a goes on to its write while another caller holds the
\* row of org_b
C17_Witness ==
    \E p, q \in Procs :
        /\ call[p].op \in Commits
        /\ call[p].org_id = "org_a"
        /\ pc[p] \in {"usu_flush", "utu_flush", "rs_commit"}
        /\ call[q].org_id = "org_b"
        /\ holder["org_b"] = q
        /\ holder["org_a"] = p

(***************************************************************************)
(* C18.  In the results of check_storage_limit and check_token_limit,      *)
(* percentage_used is used / limit * 100 when the limit is positive (80    *)
(* of 100 gives 80.0) and 100.0 whenever the limit reported is 0; no       *)
(* limit value makes a call raise a division error.                        *)
(***************************************************************************)
\* a positive limit: the scenario, and every token result
C18_PositiveLimit ==
    /\ StorageLimitResult(80, 100, 0, "free").percentage_used = 8000
    /\ TokenLimitResult(TokenRow(Some(80), Some(100)), NULL, 0).percentage_used = 8000
    /\ (/\ Returned("check_token_limit")
        /\ ~IsNull(Value.monthly_limit)
        /\ Val(Value.monthly_limit) > 0)
           => C8_IsPercentage(Value.percentage_used, Value.tokens_used_this_period,
                              Val(Value.monthly_limit))

\* no call of a check raises
C18_NoDivisionError ==
    (pc[1] = "idle" /\ call[1].op \in {"check_storage_limit", "check_token_limit"})
        => result[1].status = "returned"

\* a limit of 0
C18_ZeroLimit ==
    /\ Returned("check_storage_limit")
           => (Value.limit_bytes = Some(0) => Value.percentage_used = 10000)
    /\ Returned("check_token_limit")
           => (Value.monthly_limit = Some(0) => Value.percentage_used = 10000)

C18_Percentage == C18_PositiveLimit /\ C18_NoDivisionError /\ C18_ZeroLimit

(***************************************************************************)
(* C19.  The percentage_used of the storage check is clamped: in every     *)
(* state, one where current_bytes is above limit_bytes included,           *)
(* check_storage_limit returns a percentage_used between 0 and 100.        *)
(***************************************************************************)
C19_PercentageClamped ==
    Returned("check_storage_limit")
        => Value.percentage_used >= 0 /\ Value.percentage_used <= 10000

\* C19 for a counter that is not above the limit
C19_PercentageWithinLimit ==
    (/\ Returned("check_storage_limit")
     /\ Value.current_bytes <= Val(Value.limit_bytes))
        => Value.percentage_used >= 0 /\ Value.percentage_used <= 10000

(***************************************************************************)
(* C20.  A null monthly_token_limit on the usage_limits row of the         *)
(* organization means unlimited: check_token_limit then returns            *)
(* allowed = true with monthly_limit null, for every estimated_tokens and  *)
(* every credit_used_this_period.                                          *)
(***************************************************************************)
C20_NullRowLimitUnlimited ==
    (/\ Returned("check_token_limit")
     /\ ~IsNull(usage_limits[call[1].org_id])
     /\ IsNull(Val(usage_limits[call[1].org_id]).monthly_token_limit))
        => /\ Value.allowed = TRUE
           /\ IsNull(Value.monthly_limit)

\* C20 for an organization that has no plan
C20_NullRowLimitNoPlan ==
    (/\ Returned("check_token_limit")
     /\ ~IsNull(usage_limits[call[1].org_id])
     /\ IsNull(Val(usage_limits[call[1].org_id]).monthly_token_limit)
     /\ Val(organizations[call[1].org_id]).plan_id = NoPlan)
        => /\ Value.allowed = TRUE
           /\ IsNull(Value.monthly_limit)

(***************************************************************************)
(* C21.  Limit resolution never fails and puts the plan's cap before the   *)
(* tier default: for every existing organization check_storage_limit       *)
(* returns, and its limit_bytes is max_storage_mb * 1024 * 1024 if the     *)
(* plan of the organization carries a storage cap (max_storage_mb is not   *)
(* NULL), whatever the tier label; otherwise it is the default of the      *)
(* organization's tier, the free default of 100 MiB if the tier is         *)
(* missing or is no tier of the table.                                     *)
(***************************************************************************)
\* the plan of the organization carries a storage cap
C21_PlanCap(org) ==
    IF org.plan_id = NoPlan THEN NULL ELSE subscription_plans(org.plan_id).max_storage_mb

\* the default of the tier label
C21_TierDefault(org) ==
    IF org.plan_type \in TierNames THEN STORAGE_TIERS(org.plan_type)
    ELSE 100 * 1024 * 1024

C21_LimitPrecedence ==
    (/\ pc[1] = "idle"
     /\ call[1].op = "check_storage_limit"
     /\ ~IsNull(organizations[call[1].org_id]))
        => LET org == Val(organizations[call[1].org_id])
           IN  /\ result[1].status = "returned"
               /\ Value.limit_bytes
                      = IF ~IsNull(C21_PlanCap(org))
                        THEN Some(Val(C21_PlanCap(org)) * 1024 * 1024)
                        ELSE Some(C21_TierDefault(org))

\* C21 for the plans whose cap, if they carry one, is above 0
C21_LimitPrecedencePositiveCap ==
    (/\ pc[1] = "idle"
     /\ call[1].op = "check_storage_limit"
     /\ ~IsNull(organizations[call[1].org_id])
     /\ C21_PlanCap(Val(organizations[call[1].org_id])) # Some(0))
        => LET org == Val(organizations[call[1].org_id])
           IN  /\ result[1].status = "returned"
               /\ Value.limit_bytes
                      = IF ~IsNull(C21_PlanCap(org))
                        THEN Some(Val(C21_PlanCap(org)) * 1024 * 1024)
                        ELSE Some(C21_TierDefault(org))

(***************************************************************************)
(* C22.  storage_used_bytes is never negative: under every interleaving    *)
(* of update_storage_used calls with deltas of either sign,                *)
(* recalculate_storage and update_tokens_used calls, the counter of every  *)
(* row is >= 0; the commit of a delta d leaves max(0, old + d), so a       *)
(* negative delta larger than the counter leaves 0, and a first commit     *)
(* with a negative delta creates the row at 0.                             *)
(***************************************************************************)
C22_CounterNonNegative ==
    \A o \in OrgIds :
        ~IsNull(usage_limits[o])
            => /\ ~IsNull(Val(usage_limits[o]).storage_used_bytes)
               /\ Val(Val(usage_limits[o]).storage_used_bytes) >= 0

\* the step is the commit of an update_storage_used call
C22_FloorAtZero ==
    \A p \in Procs :
        (pc[p] = "usu_commit" /\ pc'[p] = "idle")
            => LET o == call[p].org_id
               IN  /\ ~IsNull(usage_limits'[o])
                   /\ Val(usage_limits'[o]).storage_used_bytes
                          = Some(Max(0, StorageIn(usage_limits, o) + call[p].n))
                   /\ (IsNull(usage_limits[o]) /\ call[p].n < 0)
                          => Val(usage_limits'[o]).storage_used_bytes = Some(0)
                   /\ StorageIn(usage_limits, o) + call[p].n < 0
                          => Val(usage_limits'[o]).storage_used_bytes = Some(0)

C22_StorageNonNegative == []C22_CounterNonNegative /\ [][C22_FloorAtZero]_vars

\* a delete of 400000 bytes has created the row at 0, and a second one has
\* left it at 0
C22_Witness ==
    /\ AllIdle
    /\ \A p \in {1, 2} : /\ call[p].op = "update_storage_used"
                         /\ call[p].org_id = "org_a"
                         /\ call[p].n = -400000
                         /\ result[p] = [status |-> "returned", value |-> Some(0)]
    /\ IsNull(usage0["org_a"])
    /\ Val(usage_limits["org_a"]).storage_used_bytes = Some(0)

(***************************************************************************)
(* C23.  The storage cap comes from the resolver alone: the result of      *)
(* check_storage_limit (allowed, limit_bytes, remaining_bytes,             *)
(* percentage_used and the rest) does not depend on the storage_limit_bytes*)
(* cached on the usage_limits row.  Two checks with the same               *)
(* additional_bytes, made while the two organizations are still twins      *)
(* that differ at most in that column, return the same result.             *)
(***************************************************************************)
C23_CapFromResolverOnly ==
    \A p, q \in Workers :
        (/\ hist.ops = {"check_storage_limit"}
         /\ pc[p] = "idle" /\ pc[q] = "idle"
         /\ call[p].op = "check_storage_limit"
         /\ call[q].op = "check_storage_limit"
         /\ call[p].org_id # call[q].org_id
         /\ call[p].n = call[q].n)
            => /\ result[p].status = "returned"
               /\ result[q].status = "returned"
               /\ result[p].value = result[q].value

\* 900000 bytes used and 200000 more asked for: a cached limit of 1000000
\* on one of the rows, none on the other, and both checks allow it under
\* the 100 MiB of the free tier
C23_Witness ==
    \E p, q \in Workers :
        /\ call[p] = [op |-> "check_storage_limit", org_id |-> "org_a", n |-> 200000,
                      request_id |-> NULL]
        /\ call[q] = [op |-> "check_storage_limit", org_id |-> "org_b", n |-> 200000,
                      request_id |-> NULL]
        /\ pc[p] = "idle" /\ pc[q] = "idle"
        /\ usage_limits["org_a"] = Some(StorageRow(900000, Some(1000000)))
        /\ usage_limits["org_b"] = Some(StorageRow(900000, NULL))
        /\ organizations["org_a"] = Some(FreeOrg)
        /\ Val(result[p].value).allowed
        /\ Val(result[p].value).limit_bytes = Some(100 * 1024 * 1024)
        /\ result[q].value = result[p].value

(***************************************************************************)
(* C24.  The token override of the organization comes before the plan      *)
(* default whenever it is set: if monthly_token_limit of the usage_limits  *)
(* row is not null, 0 included, check_token_limit enforces exactly that    *)
(* value as monthly_limit; the plan's monthly_token_limit is used only     *)
(* when the value of the row is null.                                      *)
(***************************************************************************)
\* the limit the claim resolves for a row and the organization's plan
C24_Limit(usage, org) ==
    IF ~IsNull(usage.monthly_token_limit) THEN usage.monthly_token_limit
    ELSE IF org.plan_id # NoPlan
    THEN Some(subscription_plans(org.plan_id).monthly_token_limit)
    ELSE NULL

\* the result carries the limit and decides by it
C24_Enforces(limit) ==
    /\ Value.monthly_limit = limit
    /\ ~IsNull(limit)
           => (Value.allowed <=> Value.tokens_used_this_period + call[1].n <= Val(limit))

C24_OverridePrecedence ==
    (Returned("check_token_limit") /\ ~IsNull(usage_limits[call[1].org_id]))
        => C24_Enforces(C24_Limit(Val(usage_limits[call[1].org_id]),
                                  Val(organizations[call[1].org_id])))

\* C24 for the rows whose override is not 0
C24_OverridePrecedenceNonZero ==
    (/\ Returned("check_token_limit")
     /\ ~IsNull(usage_limits[call[1].org_id])
     /\ Val(usage_limits[call[1].org_id]).monthly_token_limit # Some(0))
        => C24_Enforces(C24_Limit(Val(usage_limits[call[1].org_id]),
                                  Val(organizations[call[1].org_id])))

(***************************************************************************)
(* C25.  Check and commit agree in a sequential run: for an existing       *)
(* organization, with or without a usage_limits row, if                    *)
(* check_storage_limit reports current_bytes = c, the next call is         *)
(* update_storage_used(org, d) and it succeeds, and the call after it is   *)
(* check_storage_limit again, that check reports                           *)
(* current_bytes = max(0, c + d).                                          *)
(***************************************************************************)
\* calls p, p + 1 and p + 2 of the run are a check, a commit of op that
\* succeeded, and a check, all of one organization
CheckCommitCheck(p, op) ==
    /\ p + 2 \in Workers
    /\ pc[p + 2] = "idle"
    /\ call[p].op = "check_storage_limit"
    /\ call[p + 1].op = op
    /\ call[p + 2].op = "check_storage_limit"
    /\ call[p + 1].org_id = call[p].org_id
    /\ call[p + 2].org_id = call[p].org_id
    /\ result[p].status = "returned"
    /\ result[p + 1].status = "returned"
    /\ result[p + 2].status = "returned"

CurrentBytes(p) == Val(result[p].value).current_bytes

C25_CheckCommitAgree ==
    \A p \in Workers :
        CheckCommitCheck(p, "update_storage_used")
            => CurrentBytes(p + 2) = Max(0, CurrentBytes(p) + call[p + 1].n)

\* C25 for an organization whose usage_limits row exists at the start, or
\* that has no documents
C25_CheckCommitAgreeOnRow ==
    \A p \in Workers :
        (/\ CheckCommitCheck(p, "update_storage_used")
         /\ ~IsNull(usage0[call[p].org_id]) \/ documents = {})
            => CurrentBytes(p + 2) = Max(0, CurrentBytes(p) + call[p + 1].n)

(***************************************************************************)
(* C26.  update_tokens_used leaves the storage accounting as it is: the    *)
(* current_bytes that check_storage_limit reports for the organization is  *)
(* the same right before and right after update_tokens_used(org, t), also  *)
(* when that call creates the usage_limits row of an organization that     *)
(* has active documents.                                                   *)
(***************************************************************************)
C26_TokensLeaveStorage ==
    \A p \in Workers :
        CheckCommitCheck(p, "update_tokens_used")
            => CurrentBytes(p + 2) = CurrentBytes(p)

\* C26 for an organization whose usage_limits row exists at the start, or
\* that has no documents
C26_TokensLeaveStorageOnRow ==
    \A p \in Workers :
        (/\ CheckCommitCheck(p, "update_tokens_used")
         /\ ~IsNull(usage0[call[p].org_id]) \/ documents = {})
            => CurrentBytes(p + 2) = CurrentBytes(p)

(***************************************************************************)
(* C27.  Reconciliation is safe beside an upload: when                     *)
(* recalculate_storage(org) runs while an upload stores an active document *)
(* of size s and commits update_storage_used(org, +s), then in every       *)
(* interleaving, once both have ended, storage_used_bytes of org is the    *)
(* sum of file_size over its active documents: the upload is neither       *)
(* dropped nor counted twice.                                              *)
(***************************************************************************)
\* the upload of caller p is done: the document is stored and the commit
\* has returned
UploadDone(p) ==
    /\ HasUploadedDocument(p)
    /\ call[p].op = "update_storage_used"
    /\ pc[p] = "idle"
    /\ result[p].status = "returned"

ReconcileDone(p) ==
    /\ call[p].op = "recalculate_storage"
    /\ pc[p] = "idle"
    /\ result[p].status = "returned"

NotBegun(p) == call[p].op = "none" /\ ~HasUploadedDocument(p)

C27_ReconcileSafe ==
    (/\ \A p \in Procs : UploadDone(p) \/ ReconcileDone(p) \/ NotBegun(p)
     /\ \E p \in Procs : UploadDone(p)
     /\ \E p \in Procs : ReconcileDone(p))
        => StorageIn(usage_limits, "org_a") = C5_ActiveBytes("org_a")

\* uploads alone, with no reconciliation beside them, keep the counter
\* equal to the documents
C27_UploadsAlone ==
    (/\ \A p \in Procs : UploadDone(p) \/ NotBegun(p))
        => StorageIn(usage_limits, "org_a") = C5_ActiveBytes("org_a")

(***************************************************************************)
(* C28.  The two counters do not interfere under concurrency: when an      *)
(* update_storage_used(org, d) and an update_tokens_used(org, t) run       *)
(* concurrently on one organization, are the only calls made, and have     *)
(* ended, both have returned and both have taken effect in every           *)
(* interleaving: storage_used_bytes is max(0, old + d) and                 *)
(* credit_used_this_period is old + t, also when the usage_limits row of   *)
(* the organization did not exist at the start.                            *)
(***************************************************************************)
\* callers p and q have made the only two calls, a commit of bytes and a
\* commit of tokens on organization o, and both calls have ended
BytesBesideTokens(p, q, o) ==
    /\ AllIdle
    /\ hist.calls = 2
    /\ call[p].op = "update_storage_used"
    /\ call[q].op = "update_tokens_used"
    /\ call[p].org_id = o
    /\ call[q].org_id = o

BothTookEffect(p, q, o) ==
    /\ result[p].status = "returned"
    /\ result[q].status = "returned"
    /\ StorageIn(usage_limits, o) = Max(0, StorageIn(usage0, o) + call[p].n)
    /\ CreditIn(usage_limits, o) = CreditIn(usage0, o) + call[q].n

C28_CountersIndependent ==
    \A p, q \in Procs, o \in OrgIds :
        BytesBesideTokens(p, q, o) => BothTookEffect(p, q, o)

\* C28 where the usage_limits row exists at the start
C28_CountersIndependentOnRow ==
    \A p, q \in Procs, o \in OrgIds :
        (BytesBesideTokens(p, q, o) /\ ~IsNull(usage0[o])) => BothTookEffect(p, q, o)

(***************************************************************************)
(* C29.  Token denial is stable within a period: the limit of the          *)
(* organization unchanged and the counter not reset, once                  *)
(* check_token_limit(org, n) has returned allowed = false, every later     *)
(* check_token_limit(org, m) with m >= n returns allowed = false too,      *)
(* whatever update_tokens_used calls with tokens >= 0, log_token_usage     *)
(* calls and storage operations run in between.  In three parts: a check   *)
(* answers from the committed tables; no step of any call, but the commit  *)
(* of a negative token count, takes the tables from a state in which       *)
(* check_token_limit(org, n) is denied to one in which it is allowed; and  *)
(* where n is denied, every m >= n is denied.                              *)
(***************************************************************************)
\* what check_token_limit(org_id, estimated_tokens) returns on committed
\* tables limits (usage_limits) and orgs (organizations)
TokenCheckOf(limits, orgs, org_id, estimated_tokens) ==
    IF IsNull(limits[org_id]) \/ IsNull(orgs[org_id])
    THEN TokenNoRow
    ELSE TokenLimitResult(Val(limits[org_id]), PlanOf(Val(orgs[org_id])),
                          estimated_tokens)

TokenDenied(limits, orgs, org_id, n) == ~TokenCheckOf(limits, orgs, org_id, n).allowed

\* the first call of a caller is a check_token_limit
C29_CheckAnswersFromTables ==
    \A p \in Procs :
        (call[p].op = "none" /\ call'[p].op = "check_token_limit")
            => result'[p] = [status |-> "returned",
                             value |-> Some(TokenCheckOf(usage_limits, organizations,
                                                          call'[p].org_id, call'[p].n))]

C29_DenialStands ==
    \A o \in OrgIds, n \in EstimatedTokens :
        (/\ TokenDenied(usage_limits, organizations, o, n)
         /\ \A p \in Procs : (pc[p] = "utu_commit" /\ pc'[p] = "idle") => call[p].n >= 0)
            => TokenDenied(usage_limits', organizations', o, n)

C29_DenialMonotone ==
    \A o \in OrgIds, n \in EstimatedTokens, m \in EstimatedTokens :
        (m >= n /\ TokenDenied(usage_limits, organizations, o, n))
            => TokenDenied(usage_limits, organizations, o, m)

C29_DenialStable ==
    /\ []C29_DenialMonotone
    /\ [][C29_CheckAnswersFromTables /\ C29_DenialStands]_vars

\* 450000 of 500000 tokens used: a check for 60000 more is denied, then
\* update_tokens_used commits 60000, and the check is denied still
C29_Witness ==
    \E p, q \in Procs :
        /\ AllIdle
        /\ call[p] = [op |-> "check_token_limit", org_id |-> "org_a", n |-> 60000,
                      request_id |-> NULL]
        /\ result[p].status = "returned"
        /\ Val(result[p].value).allowed = FALSE
        /\ call[q] = [op |-> "update_tokens_used", org_id |-> "org_a", n |-> 60000,
                      request_id |-> NULL]
        /\ result[q] = [status |-> "returned", value |-> Some(510000)]
        /\ TokenDenied(usage_limits, organizations, "org_a", 60000)
        /\ TokenDenied(usage_limits, organizations, "org_a", 0)

(***************************************************************************)
(* C30.  Commit order does not matter: when two update_storage_used calls  *)
(* on one organization, with deltas of any sign, are the only calls made   *)
(* and both have returned, storage_used_bytes is what it would be          *)
(* whichever of the two had taken the row lock first: the value of the     *)
(* one order equals the value of the other.                                *)
(***************************************************************************)
\* callers p and q have made the only two calls, both commits of bytes on
\* organization o, and both have returned
TwoCommits(p, q, o) ==
    /\ p # q
    /\ AllIdle
    /\ hist.calls = 2
    /\ call[p].op = "update_storage_used"
    /\ call[q].op = "update_storage_used"
    /\ call[p].org_id = o
    /\ call[q].org_id = o
    /\ result[p].status = "returned"
    /\ result[q].status = "returned"

\* the counter after the delta first and then the delta second, each
\* applied with the floor at 0
InOrder(start, first, second) == Max(0, Max(0, start + first) + second)

\* the final counter is that of the order p, q and that of the order q, p
EitherOrder(p, q, o) ==
    /\ StorageIn(usage_limits, o) = InOrder(StorageIn(usage0, o), call[p].n, call[q].n)
    /\ StorageIn(usage_limits, o) = InOrder(StorageIn(usage0, o), call[q].n, call[p].n)

Covered(o, delta) == StorageIn(usage0, o) + delta >= 0

====
